---- MODULE Spec2Model ----
(***************************************************************************)
(* Chat-With-Pdf-Langchain: the three iterations of the ingestion/query    *)
(* script and the getIndexOrCreate helper, run by up to two operating-     *)
(* system processes against one vector-database project.                   *)
(*                                                                         *)
(*   V1  src/src/index.ts          (settings read from the environment)    *)
(*   V2  src/unnamed/part_000      (settings hard-coded, guard present)    *)
(*   V3  src/unnamed/part_001:68+  (first iteration: local provisioner,    *)
(*                                  no guard, createIndex inside queryPDF) *)
(*                                                                         *)
(* Every awaited SDK call is one step; each may fail (the SDK throws).     *)
(***************************************************************************)
EXTENDS Integers, Sequences, FiniteSets, TLC

\* ------------------------------------------------------------------ bounds
MaxRuns == 2        \* runs of main() started over the whole behaviour
MaxChunks == 2      \* chunks the splitter produces for the document
NO_OF_RELEVANT_CHUNKS == 2   \* V1's configured top-K (process.env)

\* --------------------------------------------------------------- constants
Dimension == 768    \* dimension requested for the index
TopK == 3           \* hard-coded top-K of V2 and V3

Procs == {1, 2}
Variants == {"V1", "V2", "V3"}
Dimensions == {Dimension, 2 * Dimension}
HardNamespace == "pdf-namespace"
Namespaces == {HardNamespace, "doc-ns"}
OtherIndex == [name |-> "other-index", dimension |-> Dimension]

VARIABLES
    variant,        \* which script the processes run
    PDF_NAMESPACE,  \* process.env.PDF_NAMESPACE (read by V1 only)
    embDim,         \* output length of the configured embedding model
    docChunks,      \* number of chunks the document splits into
    indexes,        \* provider: the project's indexes, {[name, dimension]}
    records,        \* provider: record count of each namespace of the index
    createCalls,    \* provider: createIndex calls received so far
    runs,           \* runs of main() started so far
    proc            \* per process: where main() is suspended, and its locals

config == <<variant, PDF_NAMESPACE, embDim, docChunks>>
provider == <<indexes, records, createCalls>>
vars == <<config, provider, runs, proc>>

\* ------------------------------------------------------- values and helpers
NoResult == [fetched |-> FALSE, hasIndexes |-> FALSE, indexes |-> {}]
NoStats == [fetched |-> FALSE, hasNamespaces |-> FALSE, namespaces |-> <<>>]
NoPrompt == [built |-> FALSE, context |-> <<>>, userQuery |-> <<>>]

\* A process outside main(), or at the start of a run.
\*   pc           the awaited call the process is suspended on
\*   result       getIndexOrCreate's `result` (while that call is active)
\*   stats        the statistics the guard read, until the process's next call
\*   guard        what the guard decided in this run
\*   did          the calls that completed in this run
\*   upsertCalls  upsert calls issued in this run
\*   genCalls     generateContent calls issued in this run
\*   touched      <<role, namespace>> for the guard, the upsert and the query
\*   startedWith  record count of the upsert namespace when the run started
\*   answer       what main() printed as the answer
\*   failedAt     the call whose failure main() caught
Fresh ==
    [pc |-> "idle", result |-> NoResult, stats |-> NoStats, guard |-> "none",
     did |-> {}, upsertCalls |-> 0, genCalls |-> 0, touched |-> {},
     startedWith |-> 0, relevantDocs |-> <<>>, prompt |-> NoPrompt,
     answer |-> "none", failedAt |-> "none"]

Min(a, b) == IF a < b THEN a ELSE b

\* Texts are sequences of tokens; Array.prototype.join with a separator.
RECURSIVE Join(_, _)
Join(texts, sep) ==
    IF texts = <<>> THEN <<>>
    ELSE IF Len(texts) = 1 THEN Head(texts)
    ELSE Head(texts) \o sep \o Join(Tail(texts), sep)

Separator == <<"\n\n">>
UserQuery == <<"question">>
PageContent(i) == <<"chunk">>

\* ------------------------------------------------------------ the settings
\* One index name is in use: "pdf-index" in V2 and V3, process.env.INDEX_NAME
\* in V1 (the same name is provisioned and opened).
IndexName == "pdf-index"
GuardNamespace == IF variant = "V1" THEN PDF_NAMESPACE ELSE HardNamespace
UpsertNamespace == HardNamespace
QueryNamespace == HardNamespace
QueryTopK == IF variant = "V1" THEN NO_OF_RELEVANT_CHUNKS ELSE TopK

\* ------------------------------------------------- the order of the calls
FirstStep == IF variant = "V1" THEN "list" ELSE "load"
AfterSplit == IF variant = "V1" THEN "embed" ELSE "list"
AfterProvision == IF variant = "V3" THEN "embed" ELSE "stats"
AfterGuardProceed == IF variant = "V1" THEN "load" ELSE "embed"
AfterInit == IF variant = "V3" THEN "qcreate" ELSE "qembed"

InitSteps ==
    {"list", "create", "stats", "load", "split", "embed", "upsert", "assign"}
QuerySteps == {"qcreate", "qembed", "search", "generate"}

\* ------------------------------------------------------------ the provider
Exists == \E idx \in indexes : idx.name = IndexName
IndexDimension == (CHOOSE idx \in indexes : idx.name = IndexName).dimension

\* listIndexes: the list may be missing when the project has no index.
ListResponses ==
    {[fetched |-> TRUE, hasIndexes |-> TRUE, indexes |-> indexes]}
    \cup (IF indexes = {}
          THEN {[fetched |-> TRUE, hasIndexes |-> FALSE, indexes |-> {}]}
          ELSE {})

\* describeIndexStats: a namespace that holds records is listed with its
\* count; an empty one may be listed with 0 or left out; the map itself may
\* be missing when nothing holds a record.
StatsResponses ==
    LET Positive == {ns \in Namespaces : records[ns] > 0}
        Zero == Namespaces \ Positive
    IN  {[fetched |-> TRUE, hasNamespaces |-> TRUE,
          namespaces |-> [ns \in Positive \cup Z |->
                             [recordCount |-> records[ns]]]] : Z \in SUBSET Zero}
        \cup (IF Positive = {}
              THEN {[fetched |-> TRUE, hasNamespaces |-> FALSE, namespaces |-> <<>>]}
              ELSE {})

\* ------------------------------------------------------------------- main
\* A faulty Caught: a failure inside initializeVectorStore is logged and
\* main() goes on to the query.
CaughtAndContinue(r, step) ==
    IF step \in InitSteps
    THEN [r EXCEPT !.pc = AfterInit, !.failedAt = step, !.result = NoResult,
                   !.stats = NoStats]
    ELSE [r EXCEPT !.pc = "done", !.failedAt = step, !.result = NoResult,
                   !.stats = NoStats]

\* main()'s catch block: the error is logged and the run ends.
Caught(r, step) ==
    [r EXCEPT !.pc = "done", !.failedAt = step, !.result = NoResult,
              !.stats = NoStats]

\* The settings are fixed for the behaviour. The project may already hold the
\* index (of either dimension) or a foreign one; the namespaces start empty
\* and are filled by upserts only.
Init ==
    /\ variant \in Variants
    /\ PDF_NAMESPACE \in (IF variant = "V1" THEN Namespaces ELSE {HardNamespace})
    /\ embDim \in (IF variant = "V1" THEN Dimensions ELSE {Dimension})
    /\ docChunks \in 0..MaxChunks
    /\ indexes \in {{}, {OtherIndex}}
                    \cup {{[name |-> IndexName, dimension |-> d]} : d \in Dimensions}
    /\ records = [ns \in Namespaces |-> 0]
    /\ createCalls = 0
    /\ runs = 0
    /\ proc = [p \in Procs |-> Fresh]

\* main() is started (node index.js).
Start(p) ==
    /\ proc[p].pc \in {"idle", "done"}
    /\ runs < MaxRuns
    /\ runs' = runs + 1
    /\ proc' = [proc EXCEPT ![p] =
                  [Fresh EXCEPT !.pc = FirstStep,
                                !.startedWith = records[UpsertNamespace]]]
    /\ UNCHANGED <<config, provider>>

\* ---------------------------------------------------------- getIndexOrCreate
\* Whether the listed indexes call for a creation. The helper of V1 and V2
\* creates when the list is missing; V3's local helper reads result.indexes
\* unchecked, which throws a TypeError on a missing list.
ListThrows(r) == variant = "V3" /\ ~r.hasIndexes
ListedAbsent(r) ==
    \/ ~r.hasIndexes
    \/ ~(\E idx \in r.indexes : idx.name = IndexName)

\* await pc.listIndexes(), then the test of `exists`.
ListIndexes(p) ==
    /\ proc[p].pc = "list"
    /\ \/ proc' = [proc EXCEPT ![p] = Caught(@, "list")]
       \/ \E r \in ListResponses :
             proc' = [proc EXCEPT ![p] =
                IF ListThrows(r) THEN Caught(@, "list")
                ELSE IF ListedAbsent(r)
                THEN [@ EXCEPT !.pc = "create", !.result = r,
                               !.did = @ \cup {"list"}]
                ELSE [@ EXCEPT !.pc = AfterProvision,
                               !.did = @ \cup {"list"}]]
    /\ UNCHANGED <<config, provider, runs>>

\* The provider's createIndex: index names are unique in a project, so a
\* creation under an existing name is rejected.
ProviderCreate(ok) ==
    /\ createCalls' = createCalls + 1
    /\ indexes' = IF ok /\ ~Exists
                  THEN indexes \cup {[name |-> IndexName, dimension |-> Dimension]}
                  ELSE indexes
    /\ UNCHANGED records

\* await pc.createIndex({...}) inside getIndexOrCreate.
CreateIndex(p) ==
    /\ proc[p].pc = "create"
    /\ \E ok \in BOOLEAN :
          /\ ProviderCreate(ok)
          /\ proc' = [proc EXCEPT ![p] =
                IF ok /\ ~Exists
                THEN [@ EXCEPT !.pc = AfterProvision, !.result = NoResult,
                               !.did = @ \cup {"create"}]
                ELSE Caught(@, "create")]
    /\ UNCHANGED <<config, runs>>

\* ------------------------------------------------------- initializeVectorStore
\* A faulty GuardSkip: the record count is not compared with zero.
GuardSkipPresent(s, ns) ==
    /\ s.hasNamespaces
    /\ ns \in DOMAIN s.namespaces

\* The guard's condition on the statistics.
GuardSkip(s, ns) ==
    /\ s.hasNamespaces
    /\ ns \in DOMAIN s.namespaces
    /\ s.namespaces[ns].recordCount > 0

\* A faulty DescribeIndexStats: a failed statistics call is logged and the
\* run goes on as if the namespace were empty.
DescribeIndexStatsSwallow(p) ==
    /\ proc[p].pc = "stats"
    /\ \/ proc' = [proc EXCEPT ![p] =
             [@ EXCEPT !.failedAt = "stats", !.pc = AfterGuardProceed]]
       \/ /\ Exists
          /\ \E s \in StatsResponses :
                proc' = [proc EXCEPT ![p] =
                   [@ EXCEPT !.stats = s,
                             !.did = @ \cup {"stats"},
                             !.touched = @ \cup {<<"guard", GuardNamespace>>},
                             !.guard = IF GuardSkip(s, GuardNamespace)
                                       THEN "skip" ELSE "proceed",
                             !.pc = IF GuardSkip(s, GuardNamespace)
                                    THEN AfterInit ELSE AfterGuardProceed]]
    /\ UNCHANGED <<config, provider, runs>>

\* await pineconeIndex.describeIndexStats(), then the guard.
DescribeIndexStats(p) ==
    /\ proc[p].pc = "stats"
    /\ \/ proc' = [proc EXCEPT ![p] = Caught(@, "stats")]
       \/ /\ Exists
          /\ \E s \in StatsResponses :
                proc' = [proc EXCEPT ![p] =
                   [@ EXCEPT !.stats = s,
                             !.did = @ \cup {"stats"},
                             !.touched = @ \cup {<<"guard", GuardNamespace>>},
                             !.guard = IF GuardSkip(s, GuardNamespace)
                                       THEN "skip" ELSE "proceed",
                             !.pc = IF GuardSkip(s, GuardNamespace)
                                    THEN AfterInit ELSE AfterGuardProceed]]
    /\ UNCHANGED <<config, provider, runs>>

\* await loader.load()
Load(p) ==
    /\ proc[p].pc = "load"
    /\ \/ proc' = [proc EXCEPT ![p] = Caught(@, "load")]
       \/ proc' = [proc EXCEPT ![p] =
             [@ EXCEPT !.pc = "split", !.did = @ \cup {"load"},
                       !.stats = NoStats]]
    /\ UNCHANGED <<config, provider, runs>>

\* await splitter.splitDocuments(docs)
Split(p) ==
    /\ proc[p].pc = "split"
    /\ proc' = [proc EXCEPT ![p] =
          [@ EXCEPT !.pc = AfterSplit, !.did = @ \cup {"split"}]]
    /\ UNCHANGED <<config, provider, runs>>

\* `vectorStore = await PineconeStore.fromDocuments(...)` has resolved and
\* initializeVectorStore returns. V3 declares no `vectorStore`: the assignment
\* throws a ReferenceError in strict code and makes a global in sloppy code.
Stored(r) ==
    {[r EXCEPT !.pc = AfterInit]}
    \cup (IF variant = "V3" THEN {Caught(r, "assign")} ELSE {})

\* PineconeStore.fromDocuments, first half: the chunks are embedded. With no
\* chunk there is nothing to embed or to upsert.
Embed(p) ==
    /\ proc[p].pc = "embed"
    /\ IF docChunks = 0
       THEN \E nxt \in Stored([proc[p] EXCEPT !.stats = NoStats]) :
               proc' = [proc EXCEPT ![p] = nxt]
       ELSE \/ proc' = [proc EXCEPT ![p] = Caught(@, "embed")]
            \/ proc' = [proc EXCEPT ![p] =
                  [@ EXCEPT !.pc = "upsert", !.did = @ \cup {"embed"},
                            !.stats = NoStats]]
    /\ UNCHANGED <<config, provider, runs>>

\* The provider takes vectors (to store or to search by) of the index's
\* dimension only.
DimensionMatches == Exists /\ embDim = IndexDimension

\* A faulty Upsert: the vectors are keyed by their content, so a second
\* upsert of the same chunks overwrites the first.
UpsertKeyedByContent(p) ==
    /\ proc[p].pc = "upsert"
    /\ \E written \in 0..docChunks :
          /\ DimensionMatches \/ written = 0
          /\ records' = [records EXCEPT ![UpsertNamespace] =
                            IF @ < written THEN written ELSE @]
          /\ LET r == [proc[p] EXCEPT
                          !.upsertCalls = @ + 1,
                          !.touched = @ \cup {<<"upsert", UpsertNamespace>>}]
             IN  IF DimensionMatches /\ written = docChunks
                 THEN \E nxt \in Stored([r EXCEPT !.did = @ \cup {"upsert"}]) :
                         proc' = [proc EXCEPT ![p] = nxt]
                 ELSE proc' = [proc EXCEPT ![p] = Caught(r, "upsert")]
    /\ UNCHANGED <<config, indexes, createCalls, runs>>

\* PineconeStore.fromDocuments, second half: the vectors are upserted under
\* fresh ids. A failure may leave some batches written.
Upsert(p) ==
    /\ proc[p].pc = "upsert"
    /\ \E written \in 0..docChunks :
          /\ DimensionMatches \/ written = 0
          /\ records' = [records EXCEPT ![UpsertNamespace] = @ + written]
          /\ LET r == [proc[p] EXCEPT
                          !.upsertCalls = @ + 1,
                          !.touched = @ \cup {<<"upsert", UpsertNamespace>>}]
             IN  IF DimensionMatches /\ written = docChunks
                 THEN \E nxt \in Stored([r EXCEPT !.did = @ \cup {"upsert"}]) :
                         proc' = [proc EXCEPT ![p] = nxt]
                 ELSE proc' = [proc EXCEPT ![p] = Caught(r, "upsert")]
    /\ UNCHANGED <<config, indexes, createCalls, runs>>

\* ------------------------------------------------------------------ queryPDF
\* V3 only: await pineconeClient.createIndex({...}) at the head of queryPDF.
QueryCreateIndex(p) ==
    /\ proc[p].pc = "qcreate"
    /\ \E ok \in BOOLEAN :
          /\ ProviderCreate(ok)
          /\ proc' = [proc EXCEPT ![p] =
                IF ok /\ ~Exists
                THEN [@ EXCEPT !.pc = "qembed", !.did = @ \cup {"qcreate"}]
                ELSE Caught(@, "qcreate")]
    /\ UNCHANGED <<config, runs>>

\* vectorStore.similaritySearch, first half: the question is embedded.
EmbedQuery(p) ==
    /\ proc[p].pc = "qembed"
    /\ \/ proc' = [proc EXCEPT ![p] = Caught(@, "qembed")]
       \/ proc' = [proc EXCEPT ![p] =
             [@ EXCEPT !.pc = "search", !.did = @ \cup {"qembed"},
                       !.stats = NoStats]]
    /\ UNCHANGED <<config, provider, runs>>

\* The top-K matches of the namespace, as documents.
Matches(k) == [i \in 1..Min(k, records[QueryNamespace]) |-> [pageContent |-> PageContent(i)]]

\* relevantDocs.map((doc) => doc.pageContent).join("\n\n"), then the template.
BuildPrompt(docs, userQuery) ==
    [built |-> TRUE,
     context |-> Join([i \in 1..Len(docs) |-> docs[i].pageContent], Separator),
     userQuery |-> userQuery]

\* A faulty Search: with no match queryPDF answers by itself.
SearchNoData(p) ==
    /\ proc[p].pc = "search"
    /\ \/ proc' = [proc EXCEPT ![p] =
             Caught([@ EXCEPT !.touched = @ \cup {<<"query", QueryNamespace>>}],
                    "search")]
       \/ /\ DimensionMatches
          /\ proc' = [proc EXCEPT ![p] =
                IF Matches(QueryTopK) = <<>>
                THEN [@ EXCEPT !.pc = "done",
                               !.did = @ \cup {"search"},
                               !.touched = @ \cup {<<"query", QueryNamespace>>},
                               !.answer = "noData"]
                ELSE [@ EXCEPT !.pc = "generate",
                               !.did = @ \cup {"search"},
                               !.touched = @ \cup {<<"query", QueryNamespace>>},
                               !.relevantDocs = Matches(QueryTopK),
                               !.prompt = BuildPrompt(Matches(QueryTopK), UserQuery)]]
    /\ UNCHANGED <<config, provider, runs>>

\* vectorStore.similaritySearch, second half: the search; then the prompt.
Search(p) ==
    /\ proc[p].pc = "search"
    /\ \/ proc' = [proc EXCEPT ![p] =
             Caught([@ EXCEPT !.touched = @ \cup {<<"query", QueryNamespace>>}],
                    "search")]
       \/ /\ DimensionMatches
          /\ proc' = [proc EXCEPT ![p] =
                [@ EXCEPT !.pc = "generate",
                          !.did = @ \cup {"search"},
                          !.touched = @ \cup {<<"query", QueryNamespace>>},
                          !.relevantDocs = Matches(QueryTopK),
                          !.prompt = BuildPrompt(Matches(QueryTopK), UserQuery)]]
    /\ UNCHANGED <<config, provider, runs>>

\* What queryPDF returns: result.response.text() in V1 and V2; V3 returns the
\* method result.response.text itself.
Returned == IF variant = "V3" THEN "textMethod" ELSE "modelOutput"

\* await model.generateContent(prompt); main() prints what queryPDF returns.
Generate(p) ==
    /\ proc[p].pc = "generate"
    /\ \/ proc' = [proc EXCEPT ![p] =
             Caught([@ EXCEPT !.genCalls = @ + 1], "generate")]
       \/ proc' = [proc EXCEPT ![p] =
             [@ EXCEPT !.pc = "done",
                       !.genCalls = @ + 1,
                       !.did = @ \cup {"generate"},
                       !.answer = Returned]]
    /\ UNCHANGED <<config, provider, runs>>

\* ---------------------------------------------------------- specification
Next ==
    \E p \in Procs :
        \/ Start(p)
        \/ ListIndexes(p)
        \/ CreateIndex(p)
        \/ DescribeIndexStats(p)
        \/ Load(p)
        \/ Split(p)
        \/ Embed(p)
        \/ Upsert(p)
        \/ QueryCreateIndex(p)
        \/ EmbedQuery(p)
        \/ Search(p)
        \/ Generate(p)

Spec == Init /\ [][Next]_vars

\* ------------------------------------------------------------------ claims
PipelineSteps == {"load", "split", "embed", "upsert"}

\* C1: a run of initializeVectorStore that starts when the namespace that
\* ingestion writes to already holds a record issues no upsert (so the record
\* count it leaves is the one it found), whatever the namespace setting and
\* whichever script runs.
C1_IdempotentIngestion ==
    \A p \in Procs : proc[p].startedWith >= 1 => proc[p].upsertCalls = 0

\* C2: a createIndex call is issued only by a caller that has listed the
\* indexes and found the name absent from the list (or the list missing).
C2_CreateOnlyWhenListedAbsent ==
    [][\A p \in Procs :
          (createCalls' # createCalls /\ proc'[p] # proc[p])
          => /\ proc[p].result.fetched
             /\ \/ ~proc[p].result.hasIndexes
                \/ IndexName \notin {idx.name : idx \in proc[p].result.indexes}]_vars

\* Both processes passed the guard on a record count of 0 and both upserts
\* went through.
BothIngested(p, q) ==
    /\ p # q
    /\ \A r \in {p, q} : proc[r].guard = "proceed" /\ "upsert" \in proc[r].did

\* C3: when two concurrent runs both read a record count of 0 and both
\* upsert, the namespace holds the document's chunks twice: at least 2n
\* records, and exactly 2n when the guard reads the namespace that is written.
C3_RaceDuplicates ==
    \A p, q \in Procs :
        BothIngested(p, q)
        => /\ records[UpsertNamespace] >= 2 * docChunks
           /\ GuardNamespace = UpsertNamespace
              => records[UpsertNamespace] = 2 * docChunks

C3_Witness ==
    \E p, q \in Procs :
        /\ BothIngested(p, q)
        /\ GuardNamespace = UpsertNamespace
        /\ docChunks >= 1
        /\ records[UpsertNamespace] = 2 * docChunks

\* C4: a run whose describeIndexStats call failed has ended in main()'s catch
\* without a guard decision, an embedding or an upsert, and printed no answer.
C4_GuardFailureNoIngestion ==
    \A p \in Procs :
        proc[p].failedAt = "stats"
        => /\ proc[p].pc = "done"
           /\ proc[p].guard = "none"
           /\ proc[p].did \cap {"embed", "upsert"} = {}
           /\ proc[p].upsertCalls = 0
           /\ proc[p].answer = "none"

C4_Witness ==
    \E p \in Procs :
        /\ proc[p].failedAt = "stats"
        /\ records[GuardNamespace] = 0
        /\ docChunks >= 1

\* C5: while the embedding output length differs from the dimension of the
\* index in use, no upsert call is issued (the error comes first).
C5_DimensionErrorBeforeUpsert ==
    \A p \in Procs :
        (Exists /\ embDim # IndexDimension) => proc[p].upsertCalls = 0

\* C6: right after the statistics are read, the guard has signalled skip
\* exactly when they list the target namespace with a record count above
\* zero; on skip the run is past ingestion with nothing embedded or upserted,
\* otherwise it is at the next step of ingestion.
C6_GuardDecision ==
    \A p \in Procs :
        proc[p].stats.fetched
        => LET s == proc[p].stats
               listedPositive ==
                   /\ s.hasNamespaces
                   /\ GuardNamespace \in DOMAIN s.namespaces
                   /\ s.namespaces[GuardNamespace].recordCount > 0
           IN  /\ proc[p].guard = (IF listedPositive THEN "skip" ELSE "proceed")
               /\ listedPositive
                  => /\ proc[p].pc = AfterInit
                     /\ proc[p].did \cap {"embed", "upsert"} = {}
                     /\ proc[p].upsertCalls = 0
               /\ ~listedPositive => proc[p].pc = AfterGuardProceed

C6_Witness ==
    \E p \in Procs :
        /\ proc[p].stats.fetched
        /\ proc[p].stats.hasNamespaces
        /\ GuardNamespace \in DOMAIN proc[p].stats.namespaces
        /\ proc[p].stats.namespaces[GuardNamespace].recordCount = 0
        /\ proc[p].guard = "proceed"

\* A query whose similarity search returned no chunk.
EmptySearch(p) == "search" \in proc[p].did /\ proc[p].relevantDocs = <<>>

\* C7: after a similarity search that returned no chunk, the prompt is built
\* with an empty context block and the run is either about to call the model
\* or has called it exactly once and printed its output (or caught the
\* model's own failure); no answer is made up locally.
C7_EmptyContextStillGenerates ==
    \A p \in Procs :
        EmptySearch(p)
        => /\ proc[p].prompt.built
           /\ proc[p].prompt.context = <<>>
           /\ proc[p].prompt.userQuery = UserQuery
           /\ \/ /\ proc[p].pc = "generate"
                 /\ proc[p].genCalls = 0
                 /\ proc[p].answer = "none"
              \/ /\ proc[p].pc = "done"
                 /\ proc[p].genCalls = 1
                 /\ \/ proc[p].answer = "modelOutput" /\ proc[p].failedAt = "none"
                    \/ proc[p].answer = "none" /\ proc[p].failedAt = "generate"

C7_Witness ==
    \E p \in Procs :
        /\ EmptySearch(p)
        /\ records[QueryNamespace] = 0
        /\ proc[p].pc = "done"
        /\ proc[p].genCalls = 1
        /\ proc[p].answer = "modelOutput"

C9_GuardBeforePipeline ==
    \A p \in Procs :
        variant \in {"V1", "V2"}
        => /\ "stats" \in proc[p].did => "list" \in proc[p].did
           /\ (proc[p].did \cap PipelineSteps # {} \/ proc[p].upsertCalls > 0)
              => proc[p].guard = "proceed"

\* C10: within a run the guard, the upsert and the query use one and the same
\* namespace, and a guard evaluated in a run that started with a record in
\* the namespace ingestion writes to signals skip.
C10_NamespaceAgreement ==
    \A p \in Procs :
        /\ \A a, b \in proc[p].touched : a[2] = b[2]
        /\ (proc[p].startedWith >= 1 /\ proc[p].guard # "none")
           => proc[p].guard = "skip"

====
